---- MODULE Spec2Model ----
(***************************************************************************)
(* The on-demand derivative image cache of the /uploads middleware         *)
(* (registerRoutes, server routes file).  Strings are sequences of         *)
(* one-character strings, so that parseInt, path.parse, the extension      *)
(* regexes and the cache-key template are computed character by character. *)
(* The variable editor is the state of the entry editor page               *)
(* (client/src/pages/editor.tsx): the form's mediaUrls and the uploads     *)
(* started by onMediaUpload.                                               *)
(***************************************************************************)
EXTENDS Integers, Sequences, FiniteSets, TLC

VARIABLES req, cache, editor

vars == <<req, cache, editor>>

(***************************************************************************)
(* Bounds of the model.                                                    *)
(***************************************************************************)
\* number of requests handled in one behaviour (they may overlap in time)
NumReq == 2

Req == 1..NumReq

(***************************************************************************)
(* Program constants.                                                      *)
(***************************************************************************)
DefaultQuality == 85
QualityFloor == 10
QualityStep == 15
MaxAttempts == 5
BytesPerKB == 1024

(***************************************************************************)
(* Characters and strings.                                                 *)
(***************************************************************************)
Digits == <<"0","1","2","3","4","5","6","7","8","9">>

Uppers == <<"A","B","C","D","E","F","G","H","I","J","K","L","M",
            "N","O","P","Q","R","S","T","U","V","W","X","Y","Z">>

Lowers == <<"a","b","c","d","e","f","g","h","i","j","k","l","m",
            "n","o","p","q","r","s","t","u","v","w","x","y","z">>

IsDigit(c) == \E i \in 1..10 : Digits[i] = c

DigitVal(c) == (CHOOSE i \in 1..10 : Digits[i] = c) - 1

\* the /i flag of the extension regexes: letters compare in lower case
Lower(c) ==
  IF \E i \in 1..26 : Uppers[i] = c
  THEN Lowers[CHOOSE i \in 1..26 : Uppers[i] = c]
  ELSE c

LowerStr(s) == [i \in 1..Len(s) |-> Lower(s[i])]

IsSuffix(suf, s) ==
  /\ Len(suf) <= Len(s)
  /\ SubSeq(s, Len(s) - Len(suf) + 1, Len(s)) = suf

IsPrefix(pre, s) ==
  /\ Len(pre) <= Len(s)
  /\ SubSeq(s, 1, Len(pre)) = pre

(***************************************************************************)
(* JavaScript values of the three parameters: null, NaN or an integer.     *)
(***************************************************************************)
Null == [t |-> "null", v |-> 0]
NaN == [t |-> "nan", v |-> 0]
Num(n) == [t |-> "int", v |-> n]

\* truthiness as used by  !width, !maxSize, if (width), maxSize && ...
Truthy(x) == x.t = "int" /\ x.v # 0

RECURSIVE DigitPrefix(_)
\* the longest prefix of s made of decimal digits
DigitPrefix(s) ==
  IF s = <<>> \/ ~IsDigit(Head(s)) THEN <<>>
  ELSE <<Head(s)>> \o DigitPrefix(Tail(s))

RECURSIVE DigitsValue(_, _)
DigitsValue(s, acc) ==
  IF s = <<>> THEN acc
  ELSE DigitsValue(Tail(s), 10 * acc + DigitVal(Head(s)))

RECURSIVE SkipSpaces(_)
SkipSpaces(s) ==
  IF s # <<>> /\ Head(s) = " " THEN SkipSpaces(Tail(s)) ELSE s

\* parseInt(string): leading blanks, an optional sign, then the longest run
\* of decimal digits; NaN when there is no digit.  Whatever follows the
\* digits is ignored.
ParseInt(s) ==
  LET t == SkipSpaces(s)
      neg == t # <<>> /\ Head(t) = "-"
      u == IF t # <<>> /\ Head(t) \in {"+", "-"} THEN Tail(t) ELSE t
      d == DigitPrefix(u)
  IN IF d = <<>> THEN NaN
     ELSE Num((IF neg THEN -1 ELSE 1) * DigitsValue(d, 0))

\* req.query.X ? parseInt(req.query.X) : dflt   (an absent and an empty
\* parameter are both falsy; both are the empty string here)
QueryInt(raw, dflt) == IF raw = <<>> THEN dflt ELSE ParseInt(raw)

RECURSIVE NatToStr(_)
NatToStr(n) ==
  IF n < 10 THEN <<Digits[n + 1]>>
  ELSE NatToStr(n \div 10) \o <<Digits[(n % 10) + 1]>>

\* `${x}` in the template literal of the cache key
TemplateStr(x) ==
  CASE x.t = "null" -> <<"n","u","l","l">>
    [] x.t = "nan" -> <<"N","a","N">>
    [] OTHER -> IF x.v < 0 THEN <<"-">> \o NatToStr(-x.v) ELSE NatToStr(x.v)

(***************************************************************************)
(* path.parse(filename).name and .ext                                      *)
(***************************************************************************)
LastDot(s) ==
  IF \E i \in 1..Len(s) : s[i] = "."
  THEN CHOOSE i \in 1..Len(s) :
         s[i] = "." /\ \A j \in (i + 1)..Len(s) : s[j] # "."
  ELSE 0

\* a dot in first position starts a hidden file's name, not an extension
PathExt(s) == IF LastDot(s) <= 1 THEN <<>> ELSE SubSeq(s, LastDot(s), Len(s))

PathName(s) == IF LastDot(s) <= 1 THEN s ELSE SubSeq(s, 1, LastDot(s) - 1)

(***************************************************************************)
(* The format classifier: the two extension regexes.                       *)
(***************************************************************************)
VideoExts == { <<".","m","p","4">>, <<".","w","e","b","m">>, <<".","m","o","v">>,
               <<".","m","4","v">>, <<".","3","g","p">>, <<".","m","k","v">> }

ImageExts == { <<".","j","p","g">>, <<".","j","p","e","g">>, <<".","p","n","g">>,
               <<".","g","i","f">>, <<".","w","e","b","p">>, <<".","h","e","i","c">>,
               <<".","h","e","i","f">> }

\* a regex that lacks the $ anchor: the extension may occur anywhere
IsImageUnanchored(filename) ==
  \E e \in ImageExts : \E i \in 1..Len(filename) :
    IsPrefix(e, SubSeq(LowerStr(filename), i, Len(filename)))

IsVideo(filename) == \E e \in VideoExts : IsSuffix(e, LowerStr(filename))

IsImage(filename) == \E e \in ImageExts : IsSuffix(e, LowerStr(filename))

\* a skip condition that tests the parameter before its default is applied
SkipNoDefault(filename, width, quality, maxSize) ==
  \/ IsVideo(filename)
  \/ ~IsImage(filename)
  \/ (~Truthy(width) /\ ~Truthy(maxSize) /\ quality = Null)

\* if (isVideo || !isImage || (!width && !maxSize && quality === 85))
Skip(filename, width, quality, maxSize) ==
  \/ IsVideo(filename)
  \/ ~IsImage(filename)
  \/ (~Truthy(width) /\ ~Truthy(maxSize) /\ quality = Num(DefaultQuality))

(***************************************************************************)
(* The derivative key builder.                                             *)
(***************************************************************************)
\* a key that leaves the quality out
CacheKeyNoQuality(filename, width, quality, maxSize) ==
  PathName(filename) \o <<"-","w">> \o TemplateStr(width)
    \o <<"-","m">> \o TemplateStr(maxSize) \o PathExt(filename)

\* a key that leaves the size budget out
CacheKeyNoMaxSize(filename, width, quality, maxSize) ==
  PathName(filename) \o <<"-","w">> \o TemplateStr(width)
    \o <<"-","q">> \o TemplateStr(quality) \o PathExt(filename)

\* a key that concatenates the parameters without their tags
CacheKeyNoTags(filename, width, quality, maxSize) ==
  PathName(filename) \o <<"-">> \o TemplateStr(width) \o TemplateStr(quality)
    \o TemplateStr(maxSize) \o PathExt(filename)

\* a key that prints an absent parameter as the empty string
CacheKeyBlankNull(filename, width, quality, maxSize) ==
  LET str(x) == IF x.t = "null" THEN <<>> ELSE TemplateStr(x)
  IN PathName(filename) \o <<"-","w">> \o str(width)
       \o <<"-","q">> \o str(quality)
       \o <<"-","m">> \o str(maxSize) \o PathExt(filename)

\* `${name}-w${width}-q${quality}-m${maxSize}${ext}`
CacheKey(filename, width, quality, maxSize) ==
  PathName(filename) \o <<"-","w">> \o TemplateStr(width)
    \o <<"-","q">> \o TemplateStr(quality)
    \o <<"-","m">> \o TemplateStr(maxSize) \o PathExt(filename)

(***************************************************************************)
(* The originals directory.  An original is never written by the           *)
(* middleware; what sharp finds in it is a property of the file.           *)
(***************************************************************************)
photoJpg == <<"p","h","o","t","o",".","j","p","g">>
bGif == <<"b",".","g","i","f">>
cPNG == <<"c",".","P","N","G">>
vMp4 == <<"v",".","m","p","4">>
nTxt == <<"n",".","t","x","t">>
zJpg == <<"z",".","j","p","g">>

\* the files fs.existsSync(filePath) finds; z.jpg is requested but absent
Uploads == {photoJpg, bGif, cPNG, vMp4, nTxt}

\* metadata.format as sharp detects it from the bytes; "none" is a file that
\* is no decodable image (c.PNG is a text file with an image extension)
FileFormat(f) ==
  CASE f = photoJpg -> "jpeg"
    [] f = bGif -> "gif"
    [] OTHER -> "none"

\* pixel width and height of the decoded original
OrigW(f) == IF f = photoJpg THEN 2000 ELSE 1000
OrigH(f) == 1000

\* encoded bytes per quality point and per 100x100 block of pixels
PerBlock(f) == IF f = photoJpg THEN 120 ELSE 140

(***************************************************************************)
(* Paths (lines 12, 18, 70, 93).  path.join puts a separator between its   *)
(* arguments; a basename and a cache key hold no separator.                *)
(***************************************************************************)
Cwd == <<"/","a","p","p">>

PathJoin(dir, name) == dir \o <<"/">> \o name

uploadsDir == PathJoin(Cwd, <<"u","p","l","o","a","d","s">>)

resizedCacheDir ==
  PathJoin(PathJoin(Cwd, <<"u","p","l","o","a","d","s">>),
           <<".","c","a","c","h","e">>)

\* const filePath = path.join(uploadsDir, filename)
FilePath(filename) == PathJoin(uploadsDir, filename)

\* a cache kept next to the originals
CachePathInUploads(cacheKey) == PathJoin(uploadsDir, cacheKey)

\* const cachePath = path.join(resizedCacheDir, cacheKey)
CachePath(cacheKey) == PathJoin(resizedCacheDir, cacheKey)

(***************************************************************************)
(* Byte sequences.  An encoder output is named by what determines it: the  *)
(* original, the resize width (0: not resized), the codec and the quality. *)
(***************************************************************************)
NoBytes == [src |-> <<>>, fmt |-> "", w |-> 0, q |-> 0]

OriginalBytes(f) == [src |-> f, fmt |-> "orig", w |-> 0, q |-> 0]

Encode(f, width, fmt, q) ==
  [src |-> f, fmt |-> fmt, w |-> IF Truthy(width) THEN width.v ELSE 0, q |-> q]

Max(a, b) == IF a >= b THEN a ELSE b

\* buffer.length of an encoder output: it grows with the quality and with
\* the number of pixels (resize keeps the aspect ratio)
ByteLength(b) ==
  LET w == IF b.w = 0 THEN OrigW(b.src) ELSE b.w
      h == (OrigH(b.src) * w) \div OrigW(b.src)
  IN PerBlock(b.src) * Max(1, w \div 100) * Max(1, h \div 100) * b.q

(***************************************************************************)
(* Codec choice and content types.                                         *)
(***************************************************************************)
\* metadata.format -> outputFormat
OutputFormat(format) ==
  CASE format \in {"jpeg", "jpg"} -> "jpeg"
    [] format = "png" -> "png"
    [] format = "webp" -> "webp"
    [] OTHER -> "jpeg"

\* res.type(`image/${outputFormat}`)
ContentType(outputFormat) ==
  CASE outputFormat = "jpeg" -> "image/jpeg"
    [] outputFormat = "png" -> "image/png"
    [] outputFormat = "webp" -> "image/webp"
    [] OTHER -> "image/other"

\* the Content-Type res.sendFile and express.static derive from a path's
\* extension
MimeOfPath(p) ==
  LET e == LowerStr(PathExt(p))
  IN CASE e \in {<<".","j","p","g">>, <<".","j","p","e","g">>} -> "image/jpeg"
       [] e = <<".","p","n","g">> -> "image/png"
       [] e = <<".","g","i","f">> -> "image/gif"
       [] e = <<".","w","e","b","p">> -> "image/webp"
       [] e = <<".","h","e","i","c">> -> "image/heic"
       [] e = <<".","h","e","i","f">> -> "image/heif"
       [] e = <<".","m","p","4">> -> "video/mp4"
       [] e = <<".","t","x","t">> -> "text/plain"
       [] OTHER -> "application/octet-stream"

(***************************************************************************)
(* sharp's argument checks: resize(width) and toFormat(_, { quality })     *)
(* throw on a value outside their range.                                   *)
(***************************************************************************)
ResizeOk(width) == width.t = "int" /\ width.v > 0

QualityOk(outputFormat, quality) ==
  /\ quality.t = "int"
  /\ quality.v <= 100
  /\ quality.v >= (IF outputFormat = "png" THEN 0 ELSE 1)

(***************************************************************************)
(* The quality ladder.                                                     *)
(***************************************************************************)
\* a ladder that stops one attempt early
LoopCondFourAttempts(finalBuffer, maxSize, adjustedQuality, attempts) ==
  /\ ByteLength(finalBuffer) > maxSize.v * BytesPerKB
  /\ adjustedQuality > QualityFloor
  /\ attempts < MaxAttempts - 1

\* while (finalBuffer.length > maxSize * 1024 && adjustedQuality > 10 && attempts < 5)
LoopCond(finalBuffer, maxSize, adjustedQuality, attempts) ==
  /\ ByteLength(finalBuffer) > maxSize.v * BytesPerKB
  /\ adjustedQuality > QualityFloor
  /\ attempts < MaxAttempts

\* a step down that forgets the floor
NextQualityNoFloor(adjustedQuality) == adjustedQuality - QualityStep

\* adjustedQuality = Math.max(10, adjustedQuality - 15)
NextQuality(adjustedQuality) == Max(QualityFloor, adjustedQuality - QualityStep)

\* if (maxSize && resizedImgBuffer.length > maxSize * 1024)
OverBudget(buffer, maxSize) ==
  Truthy(maxSize) /\ ByteLength(buffer) > maxSize.v * BytesPerKB

(***************************************************************************)
(* Requests.  pc is the await the handler is suspended at:                 *)
(*   "idle"      not yet received                                          *)
(*   "metadata"  await sharpInstance.metadata()                            *)
(*   "encode"    await ...toFormat(outputFormat, outputOptions).toBuffer() *)
(*   "ladder"    await ...toFormat(..., { quality: adjustedQuality })      *)
(*   "writing"   inside fs.writeFileSync(cachePath, ...): a synchronous    *)
(*               call, the one thread of the event loop is in it           *)
(*   "sendfile"  res.sendFile(cachePath) was called and the handler has    *)
(*               returned; the file has not been opened yet                *)
(*   "stream"    res.sendFile has found the file (its size is known) and   *)
(*               reads it                                                  *)
(*   "done"      the handler has returned and the response is complete     *)
(* outcome is how it ended: "next" (next() was called and express.static   *)
(* answers), "cached" (res.sendFile(cachePath)) or "fresh" (res.send).     *)
(* The last fields record what the handler did: lookedUp (the cache was    *)
(* consulted), decoded (sharp opened the original), encodes (toBuffer      *)
(* calls), wrote / writeFailed (writeFileSync returned / threw), logged    *)
(* (console.error), afterStore (when the request arrived, a request with   *)
(* the same filename, width, quality and maxSize had already been answered *)
(* with a derivative it stored), afterFail (when it arrived, a request     *)
(* with the same four values had ended in a failed transform),             *)
(* transformFailed (metadata(), resize() or a toBuffer() of this request   *)
(* threw), pending (the buffer handed to writeFileSync), statBytes (the    *)
(* file res.sendFile found), raced (the entry was written again between   *)
(* the existence check and the end of res.sendFile's read), sends and      *)
(* nexts (calls of res.sendFile / res.send and of next()).                 *)
(***************************************************************************)
IdleRequest ==
  [pc |-> "idle", filename |-> <<>>, rawW |-> <<>>, rawQ |-> <<>>, rawM |-> <<>>,
   width |-> Null, quality |-> Null, maxSize |-> Null,
   cacheKey |-> <<>>, outputFormat |-> "",
   adjustedQuality |-> 0, attempts |-> 0, finalBuffer |-> NoBytes,
   outcome |-> "none", body |-> NoBytes, ctype |-> "",
   lookedUp |-> FALSE, decoded |-> FALSE, encodes |-> 0,
   wrote |-> FALSE, writeFailed |-> FALSE, logged |-> FALSE,
   afterStore |-> FALSE, afterFail |-> FALSE, transformFailed |-> FALSE,
   pending |-> NoBytes, statBytes |-> NoBytes, raced |-> FALSE,
   sends |-> 0, nexts |-> 0]

\* the inputs of a request: the basename of the path and the three raw
\* query parameters (<<>>: absent)
FileNames == Uploads \cup {zJpg}
RawW == { <<>>, <<"4","0","0">>, <<"x">> }
RawQ == { <<>>, <<"8","5">>, <<"1","0","0">>, <<"2","0">>, <<"5">>, <<"x">> }
RawM == { <<>>, <<"5","0">> }

\* app.use('/uploads', express.static(uploadsDir)): the original as it is,
\* or static's own 404 when there is no such file
StaticServe(rec) ==
  [rec EXCEPT !.pc = "done", !.outcome = "next", !.nexts = rec.nexts + 1,
              !.body = IF rec.filename \in Uploads
                       THEN OriginalBytes(rec.filename) ELSE NoBytes,
              !.ctype = MimeOfPath(rec.filename)]

\* a catch block that answers with an error instead of calling next()
CatchRespondError(rec) ==
  [rec EXCEPT !.pc = "done", !.outcome = "error", !.logged = TRUE]

\* a catch block that logs and forgets next()
CatchNoNext(rec) == [rec EXCEPT !.pc = "done", !.logged = TRUE]

\* catch (error) { console.error(...); next(); }
Catch(rec) == [StaticServe(rec) EXCEPT !.logged = TRUE]

\* res.type(`image/${outputFormat}`); return res.send(buffer);
SendFresh(rec, buffer) ==
  [rec EXCEPT !.pc = "done", !.outcome = "fresh", !.body = buffer,
              !.sends = rec.sends + 1,
              !.ctype = ContentType(rec.outputFormat)]

\* a lookup that never finds the entry
CacheHasNever(store, key) == FALSE

\* fs.existsSync(cachePath)
CacheHas(store, key) == key \in DOMAIN store

\* a cache that keeps the last entry only
CachePutEvict(store, key, bytes) == (key :> bytes)

\* a write that appends to a file that is already there
CachePutAppend(store, key, bytes) ==
  IF key \in DOMAIN store
  THEN (key :> [bytes EXCEPT !.fmt = "appended"]) @@ store
  ELSE (key :> bytes) @@ store

\* fs.writeFileSync(cachePath, bytes): create or replace the whole file
CachePut(store, key, bytes) == (key :> bytes) @@ store

(***************************************************************************)
(* The editor page.  up[u] is the u-th call of onMediaUpload: its pc       *)
(* ("idle": not called, "sent": xhr.send() done and the call waits at      *)
(* await uploadPromise, "done": the call has returned), the constants of   *)
(* its closure tempUrl and tempUrls, and how it ended.  A URL is a pair:   *)
(* <<"pre", n>> was in the entry when the page was opened, <<"blob", u>>   *)
(* is what URL.createObjectURL gave call u, <<"srv", u>> is the url field  *)
(* of the server's answer to call u.                                       *)
(***************************************************************************)
NumUp == 3

Up == 1..NumUp

PreUrl == <<"pre", 1>>
BlobUrl(u) == <<"blob", u>>
ServerUrl(u) == <<"srv", u>>

IdleUpload == [pc |-> "idle", tempUrl |-> <<>>, tempUrls |-> <<>>, ok |-> FALSE]

EditorIdle ==
  [mediaUrls |-> <<>>, tempMediaUrls |-> <<>>, isUploading |-> FALSE,
   uploadProgress |-> 0, revoked |-> {}, before |-> <<>>,
   up |-> [u \in Up |-> IdleUpload]]

Init ==
  /\ req = [r \in Req |-> IdleRequest]
  /\ cache = <<>>
  /\ editor = EditorIdle

(***************************************************************************)
(* Lines 68-102: everything the handler does before its first await.       *)
(***************************************************************************)
Receive(rec, store, filename, rawW, rawQ, rawM, stored) ==
  LET width == QueryInt(rawW, Null)
      quality == QueryInt(rawQ, Num(DefaultQuality))
      maxSize == QueryInt(rawM, Null)
      r0 == [rec EXCEPT !.filename = filename, !.rawW = rawW, !.rawQ = rawQ,
                        !.rawM = rawM, !.afterStore = stored]
      r1 == [r0 EXCEPT !.width = width, !.quality = quality, !.maxSize = maxSize]
      key == CacheKey(filename, width, quality, maxSize)
      r2 == [r1 EXCEPT !.cacheKey = key, !.lookedUp = TRUE]
  IN IF filename \notin Uploads THEN StaticServe(r0)
     ELSE IF Skip(filename, width, quality, maxSize) THEN StaticServe(r1)
     ELSE IF CacheHas(store, key)
     THEN [r2 EXCEPT !.pc = "sendfile", !.outcome = "cached",
                     !.sends = r2.sends + 1, !.ctype = MimeOfPath(key)]
     ELSE [r2 EXCEPT !.pc = "metadata", !.decoded = TRUE]

\* the one thread of the event loop is not inside a synchronous call, so
\* it can take the next connection or run the next settled await
EventLoopFree == \A r \in DOMAIN req : req[r].pc # "writing"

\* requests are numbered in the order they arrive; a request draws its
\* basename and raw parameters from the given sets
StartFrom(r, names, ws, qs, ms) ==
  /\ EventLoopFree
  /\ req[r].pc = "idle"
  /\ \A r2 \in DOMAIN req : r2 < r => req[r2].pc # "idle"
  /\ \E filename \in names, rawW \in ws, rawQ \in qs, rawM \in ms :
       LET same(r2) ==
             /\ req[r2].filename = filename
             /\ req[r2].width = QueryInt(rawW, Null)
             /\ req[r2].quality = QueryInt(rawQ, Num(DefaultQuality))
             /\ req[r2].maxSize = QueryInt(rawM, Null)
           stored == \E r2 \in DOMAIN req : req[r2].outcome = "fresh" /\ same(r2)
           failed == \E r2 \in DOMAIN req : req[r2].transformFailed /\ same(r2)
           rec == Receive(req[r], cache, filename, rawW, rawQ, rawM, stored)
       IN req' = [req EXCEPT ![r] = [rec EXCEPT !.afterFail = failed]]
  /\ UNCHANGED <<cache, editor>>

Start(r) == StartFrom(r, FileNames, RawW, RawQ, RawM)

(***************************************************************************)
(* Line 97: res.sendFile(cachePath) works after the handler has returned:  *)
(* it stats the file, then reads it.  What it sends is the file it found   *)
(* if the file is still the same when it is read; a file replaced by other *)
(* bytes in between gives a body that is neither.                          *)
(***************************************************************************)
SendFileStat(r) ==
  /\ EventLoopFree
  /\ req[r].pc = "sendfile"
  /\ req' = [req EXCEPT ![r].pc = "stream",
                        ![r].statBytes = cache[req[r].cacheKey]]
  /\ UNCHANGED <<cache, editor>>

ReadFile(atStat, atRead) ==
  IF atStat = atRead THEN atRead ELSE [atRead EXCEPT !.fmt = "torn"]

SendFileRead(r) ==
  /\ EventLoopFree
  /\ req[r].pc = "stream"
  /\ req' = [req EXCEPT ![r].pc = "done",
                        ![r].body = ReadFile(req[r].statBytes,
                                             cache[req[r].cacheKey])]
  /\ UNCHANGED <<cache, editor>>

(***************************************************************************)
(* Lines 102-130: metadata() settles; resize, codec choice, first encode   *)
(* is started.                                                             *)
(***************************************************************************)
\* an awaited sharp call rejects, or resize() / toFormat() throws
TransformThrows(rec) == Catch([rec EXCEPT !.transformFailed = TRUE])

AfterMetadata(rec) ==
  LET format == FileFormat(rec.filename)
      outputFormat == OutputFormat(format)
  IN IF format = "none" THEN TransformThrows(rec)
     ELSE IF Truthy(rec.width) /\ ~ResizeOk(rec.width) THEN TransformThrows(rec)
     ELSE IF ~QualityOk(outputFormat, rec.quality)
     THEN TransformThrows([rec EXCEPT !.outputFormat = outputFormat])
     ELSE [rec EXCEPT !.outputFormat = outputFormat, !.pc = "encode",
                      !.encodes = rec.encodes + 1]

MetadataDone(r) ==
  /\ EventLoopFree
  /\ req[r].pc = "metadata"
  /\ req' = [req EXCEPT ![r] = AfterMetadata(req[r])]
  /\ UNCHANGED <<cache, editor>>

(***************************************************************************)
(* Lines 132-156: a buffer is there.  Either the ladder goes on with one   *)
(* more encode, or the buffer is written to the cache and sent.            *)
(***************************************************************************)
\* a handler whose cache write is best effort: a failed write still sends
FinishBestEffort(rec, store, buffer, writeOk) ==
  IF writeOk
  THEN [rec |-> [SendFresh(rec, buffer) EXCEPT !.wrote = TRUE],
        store |-> CachePut(store, rec.cacheKey, buffer)]
  ELSE [rec |-> [SendFresh(rec, buffer) EXCEPT !.writeFailed = TRUE, !.logged = TRUE],
        store |-> store]

\* the handler's record and the cache after "Save to cache and return"
Finish(rec, store, buffer, writeOk) ==
  IF writeOk
  THEN [rec |-> [SendFresh(rec, buffer) EXCEPT !.wrote = TRUE],
        store |-> CachePut(store, rec.cacheKey, buffer)]
  ELSE [rec |-> [Catch(rec) EXCEPT !.writeFailed = TRUE], store |-> store]

\* the handler enters fs.writeFileSync(cachePath, buffer)
BeginWrite(rec, buffer) == [rec EXCEPT !.pc = "writing", !.pending = buffer]

\* the while loop's test with finalBuffer, and what follows either way
LadderOrFinish(rec) ==
  IF LoopCond(rec.finalBuffer, rec.maxSize, rec.adjustedQuality, rec.attempts)
  THEN [rec EXCEPT !.adjustedQuality = NextQuality(rec.adjustedQuality),
                   !.pc = "ladder", !.encodes = rec.encodes + 1]
  ELSE BeginWrite(rec, rec.finalBuffer)

AfterEncode(rec, encodeOk) ==
  LET buffer == Encode(rec.filename, rec.width, rec.outputFormat, rec.quality.v)
  IN IF ~encodeOk THEN TransformThrows(rec)
     ELSE IF OverBudget(buffer, rec.maxSize)
     THEN LadderOrFinish([rec EXCEPT !.adjustedQuality = rec.quality.v,
                                     !.attempts = 0, !.finalBuffer = buffer])
     ELSE BeginWrite(rec, buffer)

EncodeDone(r) ==
  /\ EventLoopFree
  /\ req[r].pc = "encode"
  /\ \E encodeOk \in BOOLEAN :
       req' = [req EXCEPT ![r] = AfterEncode(req[r], encodeOk)]
  /\ UNCHANGED <<cache, editor>>

\* a ladder step that, when its encode fails, keeps the last good buffer
AfterLadderEncodeKeepLast(rec, encodeOk) ==
  LET buffer == Encode(rec.filename, rec.width, rec.outputFormat, rec.adjustedQuality)
  IN IF ~encodeOk
     THEN BeginWrite([rec EXCEPT !.transformFailed = TRUE], rec.finalBuffer)
     ELSE LadderOrFinish([rec EXCEPT !.finalBuffer = buffer,
                                     !.attempts = rec.attempts + 1])

AfterLadderEncode(rec, encodeOk) ==
  LET buffer == Encode(rec.filename, rec.width, rec.outputFormat, rec.adjustedQuality)
  IN IF ~encodeOk THEN TransformThrows(rec)
     ELSE LadderOrFinish([rec EXCEPT !.finalBuffer = buffer,
                                     !.attempts = rec.attempts + 1])

LadderDone(r) ==
  /\ EventLoopFree
  /\ req[r].pc = "ladder"
  /\ \E encodeOk \in BOOLEAN :
       req' = [req EXCEPT ![r] = AfterLadderEncode(req[r], encodeOk)]
  /\ UNCHANGED <<cache, editor>>

(***************************************************************************)
(* Lines 148-150 and 154-156: fs.writeFileSync returns or throws, and the  *)
(* handler goes on in the same turn of the event loop: res.send, or the    *)
(* catch block.                                                            *)
(***************************************************************************)
WriteDone(r) ==
  /\ req[r].pc = "writing"
  /\ \E writeOk \in BOOLEAN :
       LET n == Finish(req[r], cache, req[r].pending, writeOk)
           reading(r2) == /\ req[r2].pc \in {"sendfile", "stream"}
                          /\ req[r2].cacheKey = req[r].cacheKey
       IN /\ req' = [r2 \in DOMAIN req |->
                      IF r2 = r THEN n.rec
                      ELSE IF n.rec.wrote /\ reading(r2)
                      THEN [req[r2] EXCEPT !.raced = TRUE]
                      ELSE req[r2]]
          /\ cache' = n.store
          /\ UNCHANGED editor

Next ==
  \E r \in Req :
    \/ Start(r)
    \/ SendFileStat(r)
    \/ SendFileRead(r)
    \/ MetadataDone(r)
    \/ EncodeDone(r)
    \/ LadderDone(r)
    \/ WriteDone(r)

Spec == Init /\ [][Next]_vars

(***************************************************************************)
(* Three requests for one image, to look at requests in flight together:   *)
(* the same handler steps, with a request's inputs drawn from fewer        *)
(* values.                                                                 *)
(***************************************************************************)
NumConc == 3

ConcNames == {photoJpg, cPNG}
ConcW == { <<"4","0","0">> }
ConcQ == { <<>>, <<"1","0","0">> }
ConcM == { <<>>, <<"5","0">> }

ConcInit ==
  /\ req = [r \in 1..NumConc |-> IdleRequest]
  /\ cache = <<>>
  /\ editor = EditorIdle

ConcStart(r) == StartFrom(r, ConcNames, ConcW, ConcQ, ConcM)

ConcNext ==
  \E r \in 1..NumConc :
    \/ ConcStart(r)
    \/ SendFileStat(r)
    \/ SendFileRead(r)
    \/ MetadataDone(r)
    \/ EncodeDone(r)
    \/ LadderDone(r)
    \/ WriteDone(r)

ConcSpec == ConcInit /\ [][ConcNext]_vars

\* what the event loop runs for request r once the call r waits for has
\* settled
Continue(r) ==
  \/ SendFileStat(r)
  \/ SendFileRead(r)
  \/ MetadataDone(r)
  \/ EncodeDone(r)
  \/ LadderDone(r)
  \/ WriteDone(r)

\* every awaited call settles and its continuation is run, a synchronous
\* write returns or throws, res.sendFile gets to its stat and to its read;
\* nothing obliges a further request to arrive
\* two requests, for what has to happen in the end
NumFair == 2

FairInit ==
  /\ req = [r \in 1..NumFair |-> IdleRequest]
  /\ cache = <<>>
  /\ editor = EditorIdle

FairNext ==
  \E r \in 1..NumFair :
    \/ ConcStart(r)
    \/ SendFileStat(r)
    \/ SendFileRead(r)
    \/ MetadataDone(r)
    \/ EncodeDone(r)
    \/ LadderDone(r)
    \/ WriteDone(r)

FairSpec ==
  /\ FairInit /\ [][FairNext]_vars
  /\ \A r \in 1..NumFair : WF_vars(Continue(r))

(***************************************************************************)
(* The key builder on its own (lines 78-93), for filenames and parameter   *)
(* values wider than those of Spec: parse the three parameters and build   *)
(* the key.                                                                *)
(***************************************************************************)
aJpg == <<"a",".","j","p","g">>
aPng == <<"a",".","p","n","g">>
aW1Jpg == <<"a","-","w","1",".","j","p","g">>
aW1Q2Jpg == <<"a","-","w","1","-","q","2",".","j","p","g">>
aW1Q2M3Jpg == <<"a","-","w","1","-","q","2","-","m","3",".","j","p","g">>
aW1Q2MnullJpg == <<"a","-","w","1","-","q","2","-","m","n","u","l","l",".","j","p","g">>
n12Jpg == <<"1","-","2",".","j","p","g">>

KeyNames == {aJpg, aPng, aW1Jpg, aW1Q2Jpg, aW1Q2M3Jpg, aW1Q2MnullJpg, n12Jpg}
KeyRaw == { <<>>, <<"1">>, <<"2">>, <<"1","2">>, <<"3">>, <<"x">>, <<"-","1">> }

BuildKey(r) ==
  /\ req[r].pc = "idle"
  /\ \E filename \in KeyNames, rawW \in KeyRaw, rawQ \in KeyRaw, rawM \in KeyRaw :
       LET width == QueryInt(rawW, Null)
           quality == QueryInt(rawQ, Num(DefaultQuality))
           maxSize == QueryInt(rawM, Null)
       IN req' = [req EXCEPT ![r] =
                    [@ EXCEPT !.pc = "keyed", !.filename = filename,
                              !.rawW = rawW, !.rawQ = rawQ, !.rawM = rawM,
                              !.width = width, !.quality = quality,
                              !.maxSize = maxSize,
                              !.cacheKey = CacheKey(filename, width, quality, maxSize)]]
  /\ UNCHANGED <<cache, editor>>

KeyNext == BuildKey(1)

KeySpec == Init /\ [][KeyNext]_vars

(***************************************************************************)
(* onMediaUpload (editor.tsx lines 166-228).  The page opens on a new      *)
(* entry (no media) or on an entry that has one media URL; before is the   *)
(* list the page opened with.                                              *)
(***************************************************************************)
EditorInit ==
  /\ req = [r \in Req |-> IdleRequest]
  /\ cache = <<>>
  /\ \E urls \in { <<>>, <<PreUrl>> } :
       editor = [EditorIdle EXCEPT !.mediaUrls = urls, !.before = urls]

\* tempUrls.map(u => u === tempUrl ? url : u)
ReplaceUrl(urls, tempUrl, url) ==
  [i \in 1..Len(urls) |-> IF urls[i] = tempUrl THEN url ELSE urls[i]]

\* currentUrls.filter(url => url !== tempUrl)
WithoutUrl(urls, tempUrl) ==
  LET keep(x) == x # tempUrl IN SelectSeq(urls, keep)

\* lines 167-203: the call up to await uploadPromise; calls are numbered in
\* the order they are made
UploadStart(u) ==
  /\ editor.up[u].pc = "idle"
  /\ \A u2 \in Up : u2 < u => editor.up[u2].pc # "idle"
  /\ LET tempUrl == BlobUrl(u)
         currentUrls == editor.mediaUrls
         tempUrls == Append(currentUrls, tempUrl)
     IN editor' = [editor EXCEPT
                     !.isUploading = TRUE, !.uploadProgress = 0,
                     !.tempMediaUrls = tempUrls, !.mediaUrls = tempUrls,
                     !.up[u] = [pc |-> "sent", tempUrl |-> tempUrl,
                                tempUrls |-> tempUrls, ok |-> FALSE]]
  /\ UNCHANGED <<req, cache>>

\* lines 181-186: a progress event of the upload
UploadProgress(u) ==
  /\ editor.up[u].pc = "sent"
  /\ \E progress \in {50, 100} :
       /\ progress # editor.uploadProgress
       /\ editor' = [editor EXCEPT !.uploadProgress = progress]
  /\ UNCHANGED <<req, cache>>

\* lines 188-198 and 222-227: the load event with status 200, then the
\* finally block
UploadLoaded(u) ==
  /\ editor.up[u].pc = "sent"
  /\ LET tempUrl == editor.up[u].tempUrl
         finalUrls == ReplaceUrl(editor.up[u].tempUrls, tempUrl, ServerUrl(u))
     IN editor' = [editor EXCEPT
                     !.mediaUrls = finalUrls, !.tempMediaUrls = <<>>,
                     !.revoked = @ \cup {tempUrl},
                     !.isUploading = FALSE, !.uploadProgress = 0,
                     !.up[u].pc = "done", !.up[u].ok = TRUE]
  /\ UNCHANGED <<req, cache>>

\* lines 196, 200-202 and 211-227: the load event with another status or
\* the error event, then the catch block and the finally block
UploadFailed(u) ==
  /\ editor.up[u].pc = "sent"
  /\ LET tempUrl == editor.up[u].tempUrl
         currentUrls == editor.mediaUrls
         finalUrls == WithoutUrl(currentUrls, tempUrl)
     IN editor' = [editor EXCEPT
                     !.mediaUrls = finalUrls, !.tempMediaUrls = <<>>,
                     !.revoked = @ \cup {tempUrl},
                     !.isUploading = FALSE, !.uploadProgress = 0,
                     !.up[u].pc = "done"]
  /\ UNCHANGED <<req, cache>>

EditorNext ==
  \E u \in Up :
    \/ UploadStart(u)
    \/ UploadProgress(u)
    \/ UploadLoaded(u)
    \/ UploadFailed(u)

EditorSpec == EditorInit /\ [][EditorNext]_vars

(***************************************************************************)
(* The transform pipeline as a function of the request (lines 100-145):    *)
(* the bytes a handler run without failure ends with.                      *)
(***************************************************************************)
RECURSIVE Ladder(_, _, _, _, _, _, _)
Ladder(f, width, fmt, maxSize, finalBuffer, adjustedQuality, attempts) ==
  IF LoopCond(finalBuffer, maxSize, adjustedQuality, attempts)
  THEN Ladder(f, width, fmt, maxSize,
              Encode(f, width, fmt, NextQuality(adjustedQuality)),
              NextQuality(adjustedQuality), attempts + 1)
  ELSE finalBuffer

Pipeline(f, width, quality, maxSize) ==
  LET fmt == OutputFormat(FileFormat(f))
      resizedImgBuffer == Encode(f, width, fmt, quality.v)
  IN IF OverBudget(resizedImgBuffer, maxSize)
     THEN Ladder(f, width, fmt, maxSize, resizedImgBuffer, quality.v, 0)
     ELSE resizedImgBuffer

PipelineOf(r) ==
  Pipeline(req[r].filename, req[r].width, req[r].quality, req[r].maxSize)

SameRequest(r1, r2) ==
  /\ req[r1].filename = req[r2].filename
  /\ req[r1].width = req[r2].width
  /\ req[r1].quality = req[r2].quality
  /\ req[r1].maxSize = req[r2].maxSize

Done(r) == req[r].pc = "done"

(***************************************************************************)
(* Claims.                                                                 *)
(***************************************************************************)

\* C1: a request that arrives after a request with the same filename, width,
\* quality and maxSize was answered with a derivative it stored is answered
\* at once from that cache entry: no decode, no encode, no write.
C1_CacheReuse ==
  \A r \in Req :
    req[r].afterStore =>
      /\ req[r].pc \in {"sendfile", "stream", "done"}
      /\ req[r].outcome = "cached"
      /\ req[r].cacheKey \in DOMAIN cache
      /\ Done(r) => req[r].body = cache[req[r].cacheKey]
      /\ ~req[r].decoded /\ req[r].encodes = 0 /\ ~req[r].wrote

C1_Witness ==
  \E r \in Req : req[r].afterStore /\ req[r].outcome = "cached" /\ Done(r)
                  /\ Truthy(req[r].maxSize)

SizeBounded(r) ==
  /\ req[r].outcome = "fresh"
  /\ req[r].maxSize.t = "int" /\ req[r].maxSize.v > 0
  /\ req[r].quality.t = "int" /\ req[r].quality.v \in 1..100

\* C5 (as claimed): the derivative fits maxSize KB, or it was encoded at
\* quality 10 after 5 re-encodes.
C5_SizeBoundFloorAndExhausted ==
  \A r \in Req :
    SizeBounded(r) =>
      \/ ByteLength(req[r].body) <= req[r].maxSize.v * BytesPerKB
      \/ (req[r].body.q = QualityFloor /\ req[r].attempts = MaxAttempts)

\* C5 (amended): the derivative fits maxSize KB, or it was encoded at a
\* quality of at most 10, or 5 re-encodes were made.
C5_SizeBoundFloorOrExhausted ==
  \A r \in Req :
    SizeBounded(r) =>
      \/ ByteLength(req[r].body) <= req[r].maxSize.v * BytesPerKB
      \/ req[r].body.q <= QualityFloor
      \/ req[r].attempts = MaxAttempts

C5_Witness ==
  \E r \in Req :
    /\ SizeBounded(r)
    /\ ByteLength(req[r].body) > req[r].maxSize.v * BytesPerKB
    /\ req[r].attempts = MaxAttempts /\ req[r].body.q > QualityFloor

\* C6: a request for an existing file with no w, no maxSize and q omitted or
\* 85 is handed to the next handler and answered with the original's bytes;
\* it consults no cache, runs no transform, and no entry exists under the
\* key of such a request.
C6_PassThrough ==
  \A r \in Req :
    ( /\ Done(r)
      /\ req[r].filename \in Uploads
      /\ req[r].rawW = <<>> /\ req[r].rawM = <<>>
      /\ req[r].rawQ \in { <<>>, <<"8","5">> } )
    => /\ req[r].outcome = "next"
       /\ req[r].body = OriginalBytes(req[r].filename)
       /\ ~req[r].lookedUp /\ ~req[r].decoded /\ req[r].encodes = 0
       /\ ~req[r].wrote
       /\ CacheKey(req[r].filename, Null, Num(DefaultQuality), Null)
            \notin DOMAIN cache

C6_Witness ==
  \E r \in Req :
    /\ Done(r) /\ req[r].filename = photoJpg
    /\ req[r].rawW = <<>> /\ req[r].rawM = <<>> /\ req[r].rawQ = <<"8","5">>
    /\ req[r].outcome = "next"
    /\ cache # <<>>

\* filenames on which the two extension tests are compared
ClassNames ==
  FileNames \cup KeyNames \cup
  { <<"A",".","M","O","V">>, <<"x",".","J","p","E","g">>,
    <<"x",".","m","p","4",".","j","p","g">>,
    <<"x",".","j","p","g",".","m","p","4">>,
    <<"x",".","j","p","g","x">>, <<"j","p","g">>, <<"x",".","h","e","i","c">>,
    <<"x",".","w","e","b","m">>, <<"x",".","w","e","b","p">>,
    <<"x",".","3","g","p">>, <<"x",".","m","k","v">>, <<"x",".","m","4","v">> }

\* no filename is both a video and an image, and each test holds exactly of
\* the names whose extension, in lower case, is on its list
ClassesPartition ==
  \A f \in ClassNames :
    /\ ~(IsVideo(f) /\ IsImage(f))
    /\ IsVideo(f) <=> \E e \in VideoExts : LowerStr(PathExt(f)) = e
    /\ IsImage(f) <=> \E e \in ImageExts : LowerStr(PathExt(f)) = e

\* C7: a request for a file that does not exist, or whose name ends in a
\* video extension, or does not end in an image extension, is handed to the
\* next handler whatever w, q and maxSize are, without consulting or writing
\* the cache; and no filename is both a video and an image.
C7_NonProcessableDelegates ==
  /\ \A r \in Req :
       ( /\ Done(r)
         /\ \/ req[r].filename \notin Uploads
            \/ \E e \in VideoExts : IsSuffix(e, LowerStr(req[r].filename))
            \/ ~\E e \in ImageExts : IsSuffix(e, LowerStr(req[r].filename)) )
       => /\ req[r].outcome = "next"
          /\ ~req[r].lookedUp /\ ~req[r].decoded /\ req[r].encodes = 0
          /\ ~req[r].wrote
  /\ ClassesPartition

C7_Witness ==
  \E r1, r2 \in Req :
    /\ Done(r1) /\ req[r1].filename = vMp4 /\ Truthy(req[r1].width)
    /\ req[r1].outcome = "next"
    /\ Done(r2) /\ req[r2].filename = zJpg /\ req[r2].rawM = <<"5","0">>
    /\ req[r2].outcome = "next"

\* C8 (as claimed): every derivative response, computed or served from the
\* cache, carries the content type of the codec chosen from the decoded
\* format.
C8_ContentTypeFollowsCodec ==
  \A r \in Req :
    req[r].outcome \in {"cached", "fresh"} =>
      req[r].ctype = ContentType(OutputFormat(FileFormat(req[r].filename)))

\* C9: two requests with the same filename, width, quality and maxSize have
\* the same key, whatever the cache held when each arrived; a key starts
\* with the stem and "-w" and ends with the original's extension; and
\* photo.jpg with w=400, the default quality and no maxSize has the key
\* photo-w400-q85-mnull.jpg.
C9_KeyDeterminism ==
  /\ \A r1, r2 \in Req :
       (req[r1].lookedUp /\ req[r2].lookedUp /\ SameRequest(r1, r2))
         => req[r1].cacheKey = req[r2].cacheKey
  /\ \A r \in Req :
       req[r].lookedUp =>
         /\ IsPrefix(PathName(req[r].filename) \o <<"-","w">>, req[r].cacheKey)
         /\ IsSuffix(PathExt(req[r].filename), req[r].cacheKey)
         /\ PathExt(req[r].cacheKey) = PathExt(req[r].filename)
  /\ \A r \in Req :
       ( /\ req[r].lookedUp
         /\ req[r].filename = photoJpg
         /\ req[r].rawW = <<"4","0","0">>
         /\ req[r].rawQ = <<>> /\ req[r].rawM = <<>> )
       => req[r].cacheKey =
            <<"p","h","o","t","o","-","w","4","0","0","-","q","8","5",
              "-","m","n","u","l","l",".","j","p","g">>

C9_Witness ==
  \E r1, r2 \in Req :
    /\ r1 # r2 /\ SameRequest(r1, r2)
    /\ req[r1].lookedUp /\ req[r2].lookedUp
    /\ req[r1].filename = photoJpg /\ req[r1].rawW = <<"4","0","0">>
    /\ req[r1].rawQ = <<>> /\ req[r1].rawM = <<>>
    /\ req[r1].outcome = "fresh" /\ req[r2].outcome = "cached"

\* every Transform Request of the key builder's inputs, with its key
KeyTable ==
  { [filename |-> f,
     width |-> QueryInt(rawW, Null),
     quality |-> QueryInt(rawQ, Num(DefaultQuality)),
     maxSize |-> QueryInt(rawM, Null),
     key |-> CacheKey(f, QueryInt(rawW, Null), QueryInt(rawQ, Num(DefaultQuality)),
                      QueryInt(rawM, Null))] :
      f \in KeyNames, rawW \in KeyRaw, rawQ \in KeyRaw, rawM \in KeyRaw }

\* C10: a request whose key has been built shares it with no request that
\* differs from it in the filename, the width, the quality or the maxSize.
C10_KeyDistinct ==
  \A r \in Req :
    req[r].pc = "keyed" =>
      \A t \in KeyTable :
        t.key = req[r].cacheKey
          => /\ t.filename = req[r].filename
             /\ t.width = req[r].width
             /\ t.quality = req[r].quality
             /\ t.maxSize = req[r].maxSize

C10_Witness ==
  \E r \in Req :
    /\ req[r].pc = "keyed"
    /\ req[r].filename = aW1Q2Jpg
    /\ req[r].width = Num(12) /\ req[r].maxSize = Num(-1)

\* C11: requests that missed on the same key while in flight together each
\* hand the same bytes to the cache write, and each one that has written
\* and answered sent what the pipeline yields for one such request alone,
\* which is also what the cache holds under the key from then on.
C11_ConcurrentDuplicatesAgree ==
  /\ \A r \in DOMAIN req :
       req[r].wrote => /\ req[r].body = PipelineOf(r)
                       /\ cache[req[r].cacheKey] = req[r].body
  /\ \A r1, r2 \in DOMAIN req :
       ( /\ req[r1].decoded /\ req[r2].decoded
         /\ req[r1].cacheKey = req[r2].cacheKey
         /\ req[r1].pc \in {"writing", "done"} /\ req[r1].pending # NoBytes
         /\ req[r2].pc \in {"writing", "done"} /\ req[r2].pending # NoBytes )
       => req[r1].pending = req[r2].pending

C11_Witness ==
  \E r1, r2 \in DOMAIN req :
    /\ r1 # r2 /\ req[r1].cacheKey = req[r2].cacheKey
    /\ req[r1].wrote /\ req[r2].wrote
    /\ req[r1].attempts > 0

C13_NonBlocking ==
  \A r1, r2 \in DOMAIN req :
    ( /\ r1 # r2
      /\ req[r1].pc \in {"metadata", "encode", "ladder", "writing"} )
    => /\ ( /\ req[r2].pc = "idle"
            /\ \A r3 \in DOMAIN req : r3 < r2 => req[r3].pc # "idle" )
          => ENABLED Start(r2)
       /\ req[r2].pc = "metadata" => ENABLED MetadataDone(r2)
       /\ req[r2].pc = "encode" => ENABLED EncodeDone(r2)
       /\ req[r2].pc = "ladder" => ENABLED LadderDone(r2)
       /\ req[r2].pc = "sendfile" => ENABLED SendFileStat(r2)
       /\ req[r2].pc = "stream" => ENABLED SendFileRead(r2)

\* C14: a request with a non-numeric w and a request that differs from it
\* only in having no w get the same decision, the same cache key and, once
\* both are answered, the same body; neither ends in an error.
C14_MalformedWidthAsAbsent ==
  \A r1, r2 \in Req :
    ( /\ req[r1].pc # "idle" /\ req[r2].pc # "idle"
      /\ req[r1].rawW = <<"x">> /\ req[r2].rawW = <<>>
      /\ req[r1].filename = req[r2].filename
      /\ req[r1].rawQ = req[r2].rawQ
      /\ req[r1].rawM = req[r2].rawM )
    => /\ req[r1].lookedUp = req[r2].lookedUp
       /\ ~Truthy(req[r1].width)
       /\ req[r1].cacheKey = req[r2].cacheKey
       /\ (Done(r1) /\ Done(r2)) => req[r1].body = req[r2].body
       /\ req[r1].outcome # "error" /\ req[r2].outcome # "error"

\* C15: no step removes a cache entry; a step that changes an entry or
\* creates one is the write of a request that missed on that very key and
\* has run the pipeline.
C15_NoEviction ==
  [][ /\ \A k \in DOMAIN cache :
           /\ k \in DOMAIN cache'
           /\ cache'[k] # cache[k]
                => \E r \in DOMAIN req : /\ req[r].pc = "writing"
                                         /\ req[r].cacheKey = k
                                         /\ req'[r].wrote
      /\ \A k \in (DOMAIN cache') \ (DOMAIN cache) :
           \E r \in DOMAIN req : /\ req[r].pc = "writing"
                                 /\ req[r].cacheKey = k
                                 /\ req[r].decoded /\ req[r].encodes > 0
                                 /\ req'[r].wrote ]_vars

C15_Witness ==
  /\ Cardinality(DOMAIN cache) >= 2
  /\ \E r1, r2 \in DOMAIN req :
       /\ r1 # r2 /\ req[r1].cacheKey = req[r2].cacheKey
       /\ req[r1].wrote /\ req[r2].wrote

\* the file a read of path p finds: a cache write to p replaces what was
\* there
FileAt(p) ==
  IF \E k \in DOMAIN cache : CachePath(k) = p
  THEN cache[CHOOSE k \in DOMAIN cache : CachePath(k) = p]
  ELSE IF \E f \in Uploads : FilePath(f) = p
  THEN OriginalBytes(CHOOSE f \in Uploads : FilePath(f) = p)
  ELSE NoBytes

\* C16: every file written lies inside the cache directory under the key of
\* a request that wrote it, no written path is the path of an original,
\* and every original is still there with its own bytes.
C16_OriginalsUntouched ==
  /\ \A k \in DOMAIN cache :
       /\ IsPrefix(resizedCacheDir \o <<"/">>, CachePath(k))
       /\ \E r \in Req : req[r].wrote /\ req[r].cacheKey = k
       /\ \A f \in FileNames : CachePath(k) # FilePath(f)
  /\ \A f \in Uploads : FileAt(FilePath(f)) = OriginalBytes(f)

C16_Witness ==
  \E r1, r2 \in Req :
    /\ req[r1].wrote /\ req[r1].filename = photoJpg
    /\ req[r2].wrote /\ req[r2].filename = bGif

\* what every run of the ladder has in common: it starts only with a
\* maxSize and a first encode over the budget, its k-th re-encode has the
\* quality max(10, q - 15k), it stops once a buffer fits, it makes five
\* re-encodes at most and the last buffer is the one sent
LadderShape(r) ==
  LET first == Encode(req[r].filename, req[r].width, req[r].outputFormat,
                      req[r].quality.v)
      rung(k) == Max(QualityFloor, req[r].quality.v - QualityStep * k)
  IN /\ req[r].encodes <= 1 + MaxAttempts
     /\ req[r].attempts <= MaxAttempts
     /\ req[r].encodes > 1 => OverBudget(first, req[r].maxSize)
     /\ req[r].pc = "ladder"
          => /\ req[r].adjustedQuality = rung(req[r].attempts + 1)
             /\ req[r].encodes = req[r].attempts + 2
             /\ OverBudget(req[r].finalBuffer, req[r].maxSize)
     /\ (req[r].outcome = "fresh" /\ req[r].attempts > 0)
          => /\ req[r].encodes = req[r].attempts + 1
             /\ req[r].body = Encode(req[r].filename, req[r].width,
                                     req[r].outputFormat, rung(req[r].attempts))
     /\ (req[r].outcome = "fresh" /\ req[r].attempts = 0)
          => req[r].body = first

\* the ladder of a request that was answered with a fresh derivative ended
\* with a buffer within the budget
LadderFits(r) == ~OverBudget(req[r].body, req[r].maxSize)

\* C17 as stated: the ladder has the common shape and goes on until a
\* buffer fits or five re-encodes are made.
C17_LadderUntilFitOrFive ==
  \A r \in Req :
    req[r].decoded =>
      /\ LadderShape(r)
      /\ req[r].outcome = "fresh"
           => LadderFits(r) \/ req[r].attempts = MaxAttempts

\* C17: the ladder has the common shape and goes on until a buffer fits,
\* or the quality has come down to the floor of 10, or five re-encodes are
\* made.
C17_LadderUntilFitFloorOrFive ==
  \A r \in Req :
    req[r].decoded =>
      /\ LadderShape(r)
      /\ req[r].outcome = "fresh"
           => \/ LadderFits(r)
              \/ req[r].attempts = MaxAttempts
              \/ req[r].body.q <= QualityFloor

C17_Witness ==
  \E r1, r2 \in Req :
    /\ req[r1].outcome = "fresh" /\ req[r1].attempts = MaxAttempts
    /\ ~LadderFits(r1)
    /\ req[r2].outcome = "fresh" /\ req[r2].attempts = 1
    /\ ~LadderFits(r2) /\ req[r2].body.q = QualityFloor

\* C18: the width, quality and maxSize with which the key is built and the
\* encoder is called are well formed: quality an integer from 1 to 100,
\* width and maxSize absent or a positive integer.
C18_WellFormedTransform ==
  \A r \in Req :
    req[r].lookedUp =>
      /\ req[r].quality.t = "int" /\ req[r].quality.v \in 1..100
      /\ req[r].width = Null \/ (req[r].width.t = "int" /\ req[r].width.v > 0)
      /\ req[r].maxSize = Null
           \/ (req[r].maxSize.t = "int" /\ req[r].maxSize.v > 0)

\* C19: a request whose transform failed (metadata, resize, the first
\* encode or a ladder encode) was handed to the next handler and wrote no
\* entry: every entry there is was written by another request; a request
\* for the same four values that arrives after it, and after no request
\* that stored them, misses again and runs the pipeline.
C19_FailedTransformNoEntry ==
  /\ \A r \in Req :
       req[r].transformFailed =>
         /\ Done(r) /\ req[r].outcome = "next"
         /\ ~req[r].wrote /\ ~req[r].writeFailed
         /\ \A k \in DOMAIN cache :
              \E r2 \in Req \ {r} : req[r2].wrote /\ req[r2].cacheKey = k
  /\ \A r \in Req :
       (req[r].afterFail /\ ~req[r].afterStore)
         => /\ req[r].lookedUp /\ req[r].decoded
            /\ req[r].outcome # "cached"

C19_Witness ==
  \E r1, r2 \in Req :
    /\ req[r1].transformFailed /\ req[r1].attempts > 0
    /\ req[r2].afterFail /\ req[r2].wrote /\ req[r2].outcome = "fresh"

\* C20: a request never has more than one outcome (a response sent or
\* next() called), has none while the handler is still at an await or in
\* its write, has exactly one when it is done, and every request that was
\* received gets done.
C20_ExactlyOneOutcome ==
  /\ [](\A r \in DOMAIN req :
          /\ req[r].sends + req[r].nexts <= 1
          /\ req[r].pc \in {"idle", "metadata", "encode", "ladder", "writing"}
               => req[r].sends + req[r].nexts = 0
          /\ req[r].pc \in {"sendfile", "stream"}
               => (req[r].sends = 1 /\ req[r].nexts = 0)
          /\ Done(r) => /\ req[r].sends + req[r].nexts = 1
                        /\ req[r].sends = 1 <=> req[r].outcome \in {"cached", "fresh"}
                        /\ req[r].nexts = 1 <=> req[r].outcome = "next")
  /\ \A r \in 1..NumFair : (req[r].pc # "idle") ~> Done(r)

C20_Witness ==
  \E r1, r2 \in DOMAIN req :
    /\ Done(r1) /\ req[r1].outcome = "fresh" /\ req[r1].attempts > 0
    /\ Done(r2) /\ req[r2].outcome = "next" /\ req[r2].transformFailed
    /\ req[r2].attempts > 0

\* how often url occurs in urls
Occurrences(urls, url) == Cardinality({i \in 1..Len(urls) : urls[i] = url})

\* C21: when at least two calls of onMediaUpload were made, each has
\* returned and each succeeded, the form's mediaUrls holds every URL the
\* page opened with, the server URL of every call exactly once and no
\* object URL, and every object URL handed out has been revoked.
C21_UploadsAllKept ==
  LET called == {u \in Up : editor.up[u].pc # "idle"}
  IN ( /\ Cardinality(called) >= 2
       /\ \A u \in called : editor.up[u].pc = "done" /\ editor.up[u].ok )
     => /\ \A i \in 1..Len(editor.before) :
             Occurrences(editor.mediaUrls, editor.before[i]) = 1
        /\ \A u \in called :
             /\ Occurrences(editor.mediaUrls, ServerUrl(u)) = 1
             /\ Occurrences(editor.mediaUrls, BlobUrl(u)) = 0
             /\ BlobUrl(u) \in editor.revoked
        /\ Len(editor.mediaUrls) = Len(editor.before) + Cardinality(called)

====
